---- MODULE Spec2Model ----
(***************************************************************************)
(* A model of the AI resume reviewer: text extraction and normalisation    *)
(* (src/parser.py), prompt construction, the retrying LLM client and the   *)
(* defensive normalisation of its answers (src/analyze.py), and the        *)
(* combined resume / job-description flow (src/main.py).                   *)
(*                                                                         *)
(* Python strings are sequences of one-character tokens.  The tokens that  *)
(* stand for characters without a printable ASCII form are                 *)
(*   "nbsp" U+00A0, "sp" U+0020, "tab" U+0009, "nl" U+000A, "cr" U+000D,   *)
(*   "sup2" U+00B2 (SUPERSCRIPT TWO).                                      *)
(***************************************************************************)
EXTENDS Integers, Sequences, FiniteSets, TLC

VARIABLES
    pc,           \* position of the running operation
    text,         \* normaliser: the input string
    once,         \* normaliser: _clean_text(text)
    twice,        \* normaliser: _clean_text(_clean_text(text))
    uploaded_file,\* the uploaded resume (the file handed to extract_text_from_file)
    jd_file,      \* the uploaded job description, or None
    api_key,      \* whether OPENAI_API_KEY is set
    extracted,    \* extractor: what extract_text_from_file did with it
    role,         \* the target job role given by the user
    resume_text,  \* parsed resume text
    jd_text,      \* parsed job description text, or None
    messages,     \* the messages last built for the remote model
    attempt,      \* number of remote calls made by the running _call_openai
    waits,        \* back-off waits slept by the running _call_openai
    raw,          \* the object the remote call returned (json.loads of its content)
    review,       \* outcome of analyze_resume
    ats,          \* outcome of analyze_with_jd
    calls,        \* log of the remote calls made, in order
    ui            \* log of what the page showed, in order

vars == <<pc, text, once, twice, uploaded_file, jd_file, api_key, extracted, role, resume_text, jd_text,
          messages, attempt, waits, raw, review, ats, calls, ui>>

None == [t |-> "None", v |-> <<>>]

Min(a, b) == IF a < b THEN a ELSE b
Max(a, b) == IF a > b THEN a ELSE b

(***************************************************************************)
(* Bounds of the model.                                                    *)
(***************************************************************************)
MaxTextLen == 5      \* longest string handed to the normaliser on its own
MaxDocLen == 1       \* longest text a document library yields to the extractor on its own
MaxRoleLen == 2      \* longest role string handed to the request builders

(***************************************************************************)
(* Strings.                                                                *)
(***************************************************************************)
Chars == {"nbsp", "sp", "tab", "nl", "cr", "a", "b"}

\* str.strip() with no argument removes every character str.isspace() accepts.
Whitespace == {"nbsp", "sp", "tab", "nl", "cr"}

SeqsOfLen(S, n) == [1..n -> S]

SeqsUpTo(S, n) == UNION {SeqsOfLen(S, k) : k \in 0..n}

\* The spec's sample blob "a\n\n\n\nb".
SampleText == <<"a", "nl", "nl", "nl", "nl", "b">>

RECURSIVE Replace(_, _, _)
Replace(s, old, new) ==
    IF s = <<>> THEN <<>>
    ELSE <<IF Head(s) = old THEN new ELSE Head(s)>> \o Replace(Tail(s), old, new)

\* Length of the longest prefix of s made of characters of S.
RECURSIVE RunLen(_, _)
RunLen(s, S) ==
    IF s = <<>> \/ Head(s) \notin S THEN 0 ELSE 1 + RunLen(Tail(s), S)

Drop(s, n) == SubSeq(s, n + 1, Len(s))

\* re.sub(r"[ \t]+", " ", s)
RECURSIVE CollapseHoriz(_)
CollapseHoriz(s) ==
    IF s = <<>> THEN <<>>
    ELSE LET n == RunLen(s, {"sp", "tab"})
         IN  IF n > 0 THEN <<"sp">> \o CollapseHoriz(Drop(s, n))
             ELSE <<Head(s)>> \o CollapseHoriz(Tail(s))

\* re.sub(r"\n{3,}", "\n\n", s)
RECURSIVE CollapseNewlines(_)
CollapseNewlines(s) ==
    IF s = <<>> THEN <<>>
    ELSE LET n == RunLen(s, {"nl"})
         IN  IF n >= 3 THEN <<"nl", "nl">> \o CollapseNewlines(Drop(s, n))
             ELSE <<Head(s)>> \o CollapseNewlines(Tail(s))

RECURSIVE LStrip(_)
LStrip(s) == IF s # <<>> /\ Head(s) \in Whitespace THEN LStrip(Tail(s)) ELSE s

RECURSIVE RStrip(_)
RStrip(s) ==
    IF s # <<>> /\ s[Len(s)] \in Whitespace THEN RStrip(SubSeq(s, 1, Len(s) - 1)) ELSE s

\* str.strip()
Strip(s) == RStrip(LStrip(s))

\* A slip: the non-breaking spaces are replaced after the runs were collapsed.
CleanLateNbsp(s) ==
    Strip(CollapseNewlines(Replace(CollapseHoriz(s), "nbsp", "sp")))

\* A slip: a run of newlines is cut to three, not two.
CleanThreeNewlines(s) ==
    LET RECURSIVE Cut(_)
        Cut(u) ==
            IF u = <<>> THEN <<>>
            ELSE LET n == RunLen(u, {"nl"})
                 IN  IF n >= 3 THEN <<"nl", "nl", "nl">> \o Cut(Drop(u, n))
                     ELSE <<Head(u)>> \o Cut(Tail(u))
    IN  Strip(Cut(CollapseHoriz(Replace(s, "nbsp", "sp"))))

_clean_text(s) ==
    Strip(CollapseNewlines(CollapseHoriz(Replace(s, "nbsp", "sp"))))

(***************************************************************************)
(* The normaliser on its own: every string up to MaxTextLen, and the       *)
(* spec's sample, normalised once and then once more.                      *)
(***************************************************************************)
IdleNorm == text = <<>> /\ once = <<>> /\ twice = <<>>

IdleExtract == extracted = None

IdleFlow ==
    /\ uploaded_file = None /\ jd_file = None /\ api_key = TRUE
    /\ role = None /\ resume_text = <<>> /\ jd_text = None /\ ui = <<>>

\* A result not there yet: the name is unbound, or bound to None.
Unset == [ok |-> FALSE, exc |-> "unset", data |-> <<>>]

IdleClient ==
    /\ messages = <<>> /\ attempt = 0 /\ waits = <<>> /\ raw = None
    /\ review = Unset /\ ats = Unset /\ calls = <<>>

NormInputs(n) == SeqsUpTo(Chars, n) \cup {SampleText}

InitNorm ==
    /\ pc = "norm"
    /\ text \in NormInputs(MaxTextLen)
    /\ once = <<>> /\ twice = <<>>
    /\ IdleExtract /\ IdleFlow /\ IdleClient

Normalize ==
    /\ pc = "norm"
    /\ once' = _clean_text(text)
    /\ pc' = "renorm"
    /\ UNCHANGED <<text, twice, uploaded_file, jd_file, api_key, extracted, role, resume_text, jd_text,
                   messages, attempt, waits, raw, review, ats, calls, ui>>

Renormalize ==
    /\ pc = "renorm"
    /\ twice' = _clean_text(once)
    /\ pc' = "normed"
    /\ UNCHANGED <<text, once, uploaded_file, jd_file, api_key, extracted, role, resume_text, jd_text,
                   messages, attempt, waits, raw, review, ats, calls, ui>>

NextNorm == Normalize \/ Renormalize

SpecNorm == InitNorm /\ [][NextNorm]_vars

HasRun(s, S, n) ==
    \E i \in 1..Len(s) : i + n - 1 <= Len(s) /\ \A k \in i..(i + n - 1) : s[k] \in S

\* C5: normalize is idempotent: normalising an already normalised string
\* changes nothing.
C5_Idempotent == pc = "normed" => twice = once

\* A string the first pass really changed (a non-breaking space next to a
\* space, inside the text) has been normalised twice.
C5_Witness ==
    /\ pc = "normed"
    /\ text = <<"a", "nbsp", "sp", "b">>
    /\ once = <<"a", "sp", "b">>
    /\ twice = once

\* C6: the output of normalize holds no non-breaking space, no run of three
\* newlines and no two consecutive space/tab characters; the sample blob
\* "a\n\n\n\nb" becomes "a\n\nb".
C6_OutputShape ==
    pc \in {"renorm", "normed"} =>
        /\ ~HasRun(once, {"nbsp"}, 1)
        /\ ~HasRun(once, {"nl"}, 3)
        /\ ~HasRun(once, {"sp", "tab"}, 2)
        /\ (text = SampleText => once = <<"a", "nl", "nl", "b">>)

C6_Witness ==
    /\ pc = "renorm"
    /\ text = SampleText
    /\ once = <<"a", "nl", "nl", "b">>

(***************************************************************************)
(* src/parser.py: extraction.                                              *)
(*                                                                         *)
(* The document libraries are outside the repository.  What PyMuPDF,       *)
(* PyPDF2, python-docx and bytes.decode make of an upload is an input of   *)
(* the model, carried by the upload as `libs`: each library either raises  *)
(* or yields the texts of the pages (paragraphs) it found.                 *)
(***************************************************************************)
MaxPages == 2        \* most pages (paragraphs) a document library yields

MAX_BYTES == 8 * 1024 * 1024

PDF == "application/pdf"
PLAIN == "text/plain"
DOCX == "application/vnd.openxmlformats-officedocument.wordprocessingml.document"
PNG == "image/png"    \* a type the extractor has no branch for

Raised == [t |-> "raised", pages |-> <<>>]
Pages(ps) == [t |-> "pages", pages |-> ps]
NoText == <<"None">>   \* PyPDF2's extract_text() returning None

RECURSIVE Join(_, _)
Join(sep, parts) ==
    IF parts = <<>> THEN <<>>
    ELSE IF Len(parts) = 1 THEN parts[1]
    ELSE parts[1] \o sep \o Join(sep, Tail(parts))

\* (p.extract_text() or "") for every page p
OrEmpty(ps) == [i \in 1..Len(ps) |-> IF ps[i] = NoText \/ ps[i] = <<>> THEN <<>> ELSE ps[i]]

Failure(exc, msg, steps) == [ok |-> FALSE, exc |-> exc, msg |-> msg, text |-> <<>>, steps |-> steps]
Success(txt, steps) == [ok |-> TRUE, exc |-> "", msg |-> "", text |-> txt, steps |-> steps]

\* A slip: PyPDF2 is read as well when PyMuPDF succeeded.
ExtractPdfBoth(libs) ==
    IF libs.pypdf2.t = "raised"
    THEN Failure("PdfReadError", "PyPDF2", <<"fitz", "pypdf2">>)
    ELSE Success(Join(<<"nl">>, OrEmpty(libs.pypdf2.pages)), <<"fitz", "pypdf2">>)

_extract_pdf(libs) ==
    IF libs.fitz.t # "raised"
    THEN Success(Join(<<"nl">>, libs.fitz.pages), <<"fitz">>)
    ELSE IF libs.pypdf2.t # "raised"
         THEN Success(Join(<<"nl">>, OrEmpty(libs.pypdf2.pages)), <<"fitz", "pypdf2">>)
         ELSE Failure("PdfReadError", "PyPDF2", <<"fitz", "pypdf2">>)

_extract_docx(libs) ==
    IF libs.docx.t # "raised"
    THEN Success(Join(<<"nl">>, libs.docx.pages), <<"docx">>)
    ELSE Failure("PackageNotFoundError", "python-docx", <<"docx">>)

EmptyMsg == "The file appears to be empty."
TooLargeMsg == "The file is too large (limit ~8MB). Please upload a smaller document."
UnsupportedMsg == "Unsupported file type"

\* What follows the size guard: the dispatch on uploaded_file.type and the cleaning.
Dispatch(f) ==
    LET got == CASE f.type = PDF -> _extract_pdf(f.libs)
                 [] f.type = PLAIN -> Success(f.libs.utf8, <<"decode">>)
                 [] f.type = DOCX -> _extract_docx(f.libs)
                 [] OTHER -> Failure("ValueError", UnsupportedMsg, <<>>)
        steps == <<"seek", "read", "type">> \o got.steps
    IN  IF got.ok
        THEN Success(_clean_text(got.text), steps \o <<"_clean_text">>)
        ELSE [got EXCEPT !.steps = steps]

\* A slip: the type is dispatched on before the size is looked at.
ExtractTypeFirst(f) ==
    LET d == Dispatch(f)
    IN  IF ~d.ok THEN d
        ELSE IF f.size = 0 THEN Failure("ValueError", EmptyMsg, d.steps)
        ELSE IF f.size > MAX_BYTES THEN Failure("ValueError", TooLargeMsg, d.steps)
        ELSE d

extract_text_from_file(f) ==
    IF f.size = 0 THEN Failure("ValueError", EmptyMsg, <<"seek", "read">>)
    ELSE IF f.size > MAX_BYTES THEN Failure("ValueError", TooLargeMsg, <<"seek", "read">>)
    ELSE Dispatch(f)

(***************************************************************************)
(* The uploads the extractor is tried on.  A library that is not reached   *)
(* contributes nothing, so each upload fixes only what the libraries its   *)
(* declared type can reach would do; the second PDF reader's behaviour is  *)
(* varied where the first one raises.                                      *)
(***************************************************************************)
DocChars == {"sp", "nl", "a"}

Sizes == {0, 1, MAX_BYTES - 1, MAX_BYTES, MAX_BYTES + 1}

Types == {PDF, PLAIN, DOCX, PNG}

NoLibs == [fitz |-> Raised, pypdf2 |-> Raised, docx |-> Raised, utf8 |-> <<>>]

LibsFor(type, texts, maxPages) ==
    LET docs == {Pages(ps) : ps \in SeqsUpTo(texts, maxPages)}
        pdf2 == {Pages(ps) : ps \in SeqsUpTo(texts \cup {NoText}, maxPages)}
    IN  CASE type = PDF ->
               {[NoLibs EXCEPT !.fitz = d] : d \in docs}
               \cup {[NoLibs EXCEPT !.pypdf2 = d] : d \in pdf2 \cup {Raised}}
          [] type = PLAIN -> {[NoLibs EXCEPT !.utf8 = s] : s \in texts}
          [] type = DOCX -> {[NoLibs EXCEPT !.docx = d] : d \in docs \cup {Raised}}
          [] OTHER -> {NoLibs}

\* bytes.decode(errors="ignore") yields no more characters than there are bytes.
Uploads(sizes, texts, maxPages) ==
    {f \in UNION {{[t |-> "UploadedFile", size |-> n, type |-> ty, libs |-> l] : l \in LibsFor(ty, texts, maxPages)}
                    : n \in sizes, ty \in Types}
       : f.type = PLAIN => Len(f.libs.utf8) <= f.size}

ExtractUploads(maxLen, maxPages) ==
    Uploads(Sizes, SeqsUpTo(DocChars, maxLen) \cup {SampleText}, maxPages)

InitExtract ==
    /\ pc = "upload"
    /\ IdleNorm /\ IdleExtract /\ IdleFlow /\ IdleClient

Extract ==
    /\ pc = "upload"
    /\ \E f \in ExtractUploads(MaxDocLen, MaxPages) :
          /\ uploaded_file' = f
          /\ extracted' = extract_text_from_file(f)
    /\ pc' = "extracted"
    /\ UNCHANGED <<text, once, twice, jd_file, api_key, role, resume_text, jd_text,
                   messages, attempt, waits, raw, review, ats, calls, ui>>

NextExtract == Extract

SpecExtract == InitExtract /\ [][NextExtract]_vars

Has(seq, x) == \E i \in 1..Len(seq) : seq[i] = x

\* C2: whatever the declared type, an empty blob is refused as empty and a
\* blob of more than 8 MiB as too large, before the type is read and before
\* any extractor runs; a blob of exactly 8 MiB is not refused for its size.
C2_SizeGuardFirst ==
    pc = "extracted" =>
        /\ uploaded_file.size = 0 =>
              /\ ~extracted.ok /\ extracted.msg = EmptyMsg
              /\ extracted.steps = <<"seek", "read">>
        /\ uploaded_file.size > MAX_BYTES =>
              /\ ~extracted.ok /\ extracted.msg = TooLargeMsg
              /\ extracted.steps = <<"seek", "read">>
        /\ (uploaded_file.size > 0 /\ uploaded_file.size <= MAX_BYTES) =>
              /\ extracted.msg \notin {EmptyMsg, TooLargeMsg}
              /\ Has(extracted.steps, "type")

\* An oversized upload of a type with no extractor was refused for its size.
C2_Witness ==
    /\ pc = "extracted"
    /\ uploaded_file.size = MAX_BYTES + 1 /\ uploaded_file.type = PNG
    /\ ~extracted.ok /\ extracted.msg = TooLargeMsg

\* C3: for a PDF that passed the size guard, the second reader runs exactly
\* when the first one raised, the first reader that succeeds supplies the
\* text, and extraction fails exactly when both raised.
C3_PdfFallbackChain ==
    (pc = "extracted" /\ uploaded_file.type = PDF /\ Has(extracted.steps, "type")) =>
        LET first == uploaded_file.libs.fitz
            second == uploaded_file.libs.pypdf2
        IN  /\ Has(extracted.steps, "fitz")
            /\ Has(extracted.steps, "pypdf2") <=> first.t = "raised"
            /\ extracted.ok <=> ~(first.t = "raised" /\ second.t = "raised")
            /\ first.t # "raised" =>
                  extracted.text = _clean_text(Join(<<"nl">>, first.pages))
            /\ (first.t = "raised" /\ second.t # "raised") =>
                  extracted.text = _clean_text(Join(<<"nl">>, OrEmpty(second.pages)))

\* The first reader raised and the second one supplied the text.
C3_Witness ==
    /\ pc = "extracted" /\ uploaded_file.type = PDF /\ uploaded_file.size = MAX_BYTES
    /\ uploaded_file.libs.fitz.t = "raised"
    /\ uploaded_file.libs.pypdf2 = Pages(<< <<"a">>, NoText >>)
    /\ extracted.ok /\ extracted.text = <<"a">>
    /\ extracted.steps = <<"seek", "read", "type", "fitz", "pypdf2", "_clean_text">>

(***************************************************************************)
(* Python values, as json.loads and the page's widgets produce them.       *)
(* A value is [t |-> its type, v |-> its content]; a str's content is its  *)
(* characters, a float's its sign, whole part and first decimal.           *)
(***************************************************************************)
StrV(s) == [t |-> "str", v |-> s]
IntV(n) == [t |-> "int", v |-> n]
BoolV(b) == [t |-> "bool", v |-> b]
FloatV(neg, whole, tenth) ==
    [t |-> "float", v |-> [kind |-> "finite", neg |-> neg, whole |-> whole, tenth |-> tenth]]
Infinity == [t |-> "float", v |-> [kind |-> "inf", neg |-> FALSE, whole |-> 0, tenth |-> 0]]
NaN == [t |-> "float", v |-> [kind |-> "nan", neg |-> FALSE, whole |-> 0, tenth |-> 0]]
ListV(xs) == [t |-> "list", v |-> xs]
Dict(d) == [t |-> "dict", v |-> d]
Absent == [t |-> "absent", v |-> <<>>]    \* the key is not in the dict

\* bool(x) for the values the flow tests
Truthy(x) ==
    CASE x.t = "None" -> FALSE
      [] x.t = "str" -> x.v # <<>>
      [] x.t = "list" -> x.v # <<>>
      [] x.t = "int" -> x.v # 0
      [] x.t = "bool" -> x.v
      [] OTHER -> TRUE

(***************************************************************************)
(* src/analyze.py: the request builders.                                   *)
(***************************************************************************)
MAX_CHARS == 20000

\* "general applications"; a word token stands for its letters.
DefaultRole == <<"general", "sp", "applications">>

\* s[:n]
Prefix(s, n) == SubSeq(s, 1, Min(Len(s), n))

\* (role or "general applications").strip()
TargetRole(r) == Strip(IF Truthy(r) THEN r.v ELSE DefaultRole)

build_message_general(resume, r) ==
    << [role |-> "system", content |-> [prompt |-> "resume reviewer"]],
       [role |-> "user",
        content |-> [prompt |-> "Analyze the following resume",
                     target |-> TargetRole(r),
                     rubric |-> "RUBRIC_GENERAL",
                     resume |-> Prefix(resume, MAX_CHARS)]] >>

build_message_with_jd(resume, jd, r) ==
    << [role |-> "system", content |-> [prompt |-> "recruiter and ATS specialist"]],
       [role |-> "user",
        content |-> [prompt |-> "Perform ATS-style matching",
                     target |-> TargetRole(r),
                     rubric |-> "RUBRIC_JD",
                     resume |-> Prefix(resume, MAX_CHARS),
                     jd |-> Prefix(jd, MAX_CHARS)]] >>

(***************************************************************************)
(* The builders on their own: every role up to MaxRoleLen, absent or not.  *)
(***************************************************************************)
RoleChars == {"sp", "tab", "a"}

Roles(n) == {None} \cup {StrV(s) : s \in SeqsUpTo(RoleChars, n)}

BuildTexts == SeqsUpTo({"a", "nl"}, 2)

InitBuild ==
    /\ pc = "build"
    /\ role \in Roles(MaxRoleLen)
    /\ resume_text \in BuildTexts
    /\ jd_text \in {None} \cup {StrV(s) : s \in BuildTexts}
    /\ uploaded_file = None /\ jd_file = None /\ api_key = TRUE /\ ui = <<>>
    /\ IdleNorm /\ IdleExtract /\ IdleClient

Build ==
    /\ pc = "build"
    /\ messages' = IF jd_text.t = "None"
                   THEN build_message_general(resume_text, role)
                   ELSE build_message_with_jd(resume_text, jd_text.v, role)
    /\ pc' = "built"
    /\ UNCHANGED <<text, once, twice, uploaded_file, jd_file, api_key, extracted, role,
                   resume_text, jd_text, attempt, waits, raw, review, ats, calls, ui>>

NextBuild == Build

SpecBuild == InitBuild /\ [][NextBuild]_vars

Blank(r) == r.t = "None" \/ Strip(r.v) = <<>>

\* C10: both builders embed "general applications" when the role is None,
\* empty or only whitespace, and the given role otherwise.
C10_DefaultRoleWhenBlank ==
    pc = "built" =>
        messages[2].content.target = (IF Blank(role) THEN DefaultRole ELSE Strip(role.v))

\* What the builders do: the default stands in for None and "" only; a role
\* of whitespace alone is embedded as the empty string.
C10_DefaultRoleWhenFalsy ==
    pc = "built" =>
        messages[2].content.target =
            (IF role.t = "None" \/ role.v = <<>> THEN DefaultRole ELSE Strip(role.v))

C10_WhitespaceRoleEmbedded ==
    /\ pc = "built"
    /\ role = StrV(<<"sp", "sp">>)
    /\ messages[2].content.target = <<>>

(***************************************************************************)
(* Python's str(), str.isdigit() and int(), as far as the normalisation    *)
(* of the model's answers exercises them.                                  *)
(***************************************************************************)
DecimalChars == <<"0", "1", "2", "3", "4", "5", "6", "7", "8", "9">>

IsDecimal(c) == \E i \in 1..10 : DecimalChars[i] = c

DigitVal(c) == (CHOOSE i \in 1..10 : DecimalChars[i] = c) - 1

\* str.isdigit() accepts the decimal digits and the characters of numeric
\* type Digit, superscript two among them; int() parses the decimal ones only.
DigitChars == {DecimalChars[i] : i \in 1..10} \cup {"sup2"}

RECURSIVE NatStr(_)
NatStr(n) ==
    IF n < 10 THEN <<DecimalChars[n + 1]>>
    ELSE NatStr(n \div 10) \o <<DecimalChars[(n % 10) + 1]>>

IntStr(n) == IF n < 0 THEN <<"-">> \o NatStr(-n) ELSE NatStr(n)

\* str(x)
RECURSIVE PyStr(_)
PyStr(x) ==
    CASE x.t = "str" -> x.v
      [] x.t = "int" -> IntStr(x.v)
      [] x.t = "bool" -> IF x.v THEN <<"T", "r", "u", "e">> ELSE <<"F", "a", "l", "s", "e">>
      [] x.t = "None" -> <<"N", "o", "n", "e">>
      [] x.t = "float" ->
            CASE x.v.kind = "inf" -> <<"i", "n", "f">>
              [] x.v.kind = "nan" -> <<"n", "a", "n">>
              [] OTHER -> (IF x.v.neg THEN <<"-">> ELSE <<>>)
                          \o NatStr(x.v.whole) \o <<".">> \o NatStr(x.v.tenth)
      [] x.t = "list" ->
            <<"[">>
            \o Join(<<",", "sp">>,
                    [i \in 1..Len(x.v) |->
                        IF x.v[i].t = "str" THEN <<"'">> \o x.v[i].v \o <<"'">>
                        ELSE PyStr(x.v[i])])
            \o <<"]">>

\* str.isdigit()
IsDigit(s) == s # <<>> /\ \A i \in 1..Len(s) : s[i] \in DigitChars

Converted(n) == [ok |-> TRUE, exc |-> "", v |-> n]
NotConverted(exc) == [ok |-> FALSE, exc |-> exc, v |-> 0]

RECURSIVE DigitsVal(_, _)
DigitsVal(s, acc) ==
    IF s = <<>> THEN acc
    ELSE IF Head(s) = "_" THEN DigitsVal(Tail(s), acc)
    ELSE DigitsVal(Tail(s), 10 * acc + DigitVal(Head(s)))

\* int(s) for a str: surrounding whitespace, a sign, decimal digits with
\* single underscores between them; anything else is a ValueError.
IntOfStr(s) ==
    LET u == Strip(s)
        signed == u # <<>> /\ Head(u) \in {"+", "-"}
        body == IF signed THEN Tail(u) ELSE u
        wellFormed ==
            /\ body # <<>>
            /\ \A i \in 1..Len(body) : IsDecimal(body[i]) \/ body[i] = "_"
            /\ body[1] # "_" /\ body[Len(body)] # "_"
            /\ \A i \in 1..(Len(body) - 1) : ~(body[i] = "_" /\ body[i + 1] = "_")
    IN  IF ~wellFormed THEN NotConverted("ValueError")
        ELSE Converted(IF signed /\ Head(u) = "-" THEN -DigitsVal(body, 0)
                       ELSE DigitsVal(body, 0))

\* int(x)
PyInt(x) ==
    CASE x.t = "int" -> Converted(x.v)
      [] x.t = "bool" -> Converted(IF x.v THEN 1 ELSE 0)
      [] x.t = "str" -> IntOfStr(x.v)
      [] x.t = "float" ->
            CASE x.v.kind = "inf" -> NotConverted("OverflowError")
              [] x.v.kind = "nan" -> NotConverted("ValueError")
              [] OTHER -> Converted(IF x.v.neg THEN -x.v.whole ELSE x.v.whole)
      [] OTHER -> NotConverted("TypeError")

(***************************************************************************)
(* src/analyze.py: the defensive normalisation of the model's answer.  The *)
(* answer is a dict over the keys of its rubric; Absent marks a key the    *)
(* answer does not hold.                                                   *)
(***************************************************************************)
GeneralListKeys ==
    {"strengths", "issues", "action_items", "missing_skills", "tailored_suggestions"}

GeneralKeys == {"overall_score", "summary"} \cup GeneralListKeys

JdListKeys == {"skills_matched", "skills_missing", "suggestions_to_tailor"}

JdKeys == {"match_score"} \cup JdListKeys

\* data.get(key, default)
Get(d, key, default) == IF d[key].t = "absent" THEN default ELSE d[key]

Return(d) == [ok |-> TRUE, exc |-> "", data |-> d]
Raise(exc) == [ok |-> FALSE, exc |-> exc, data |-> <<>>]

\* int(raw_score) if str(raw_score).isdigit() else 0
OverallScore(d) ==
    LET raw_score == Get(d, "overall_score", IntV(0))
    IN  IF IsDigit(PyStr(raw_score)) THEN PyInt(raw_score) ELSE Converted(0)

\* A slip: the score is not clamped.
MatchScoreUnclamped(d) ==
    LET got == PyInt(Get(d, "match_score", IntV(0)))
    IN  IF got.ok THEN got.v ELSE 0

\* try: score = int(...) except Exception: score = 0; max(0, min(100, score))
MatchScore(d) ==
    LET got == PyInt(Get(d, "match_score", IntV(0)))
        score == IF got.ok THEN got.v ELSE 0
    IN  Max(0, Min(100, score))

\* A slip: only a missing key is given the empty list.
ListsOnlyWhenAbsent(d, keys) ==
    [k \in DOMAIN d |-> IF k \in keys /\ d[k].t = "absent" THEN ListV(<<>>) ELSE d[k]]

\* for key in keys: if not isinstance(data.get(key), list): data[key] = []
ListsAlwaysLists(d, keys) ==
    [k \in DOMAIN d |->
        IF k \in keys /\ Get(d, k, None).t # "list" THEN ListV(<<>>) ELSE d[k]]

\* summary -> always a plain, stripped string
Summary(d) ==
    LET summary == Get(d, "summary", StrV(<<>>))
        RECURSIVE Kept(_)
        Kept(xs) ==
            IF xs = <<>> THEN <<>>
            ELSE (IF Strip(PyStr(Head(xs))) # <<>> THEN <<Strip(PyStr(Head(xs)))>> ELSE <<>>)
                 \o Kept(Tail(xs))
    IN  CASE summary.t = "list" -> Strip(Join(<<"sp">>, Kept(summary.v)))
          [] summary.t = "str" -> Strip(summary.v)
          [] OTHER -> Strip(PyStr(summary))

\* analyze_resume, from the answer of _call_openai on
NormalizeReview(d) ==
    LET score == OverallScore(d)
    IN  IF ~score.ok THEN Raise(score.exc)
        ELSE LET d1 == [d EXCEPT !["overall_score"] = IntV(score.v)]
                 d2 == ListsAlwaysLists(d1, GeneralListKeys)
             IN  Return([d2 EXCEPT !["summary"] = StrV(Summary(d2))])

\* analyze_with_jd, from the answer of _call_openai on
NormalizeAts(d) ==
    LET d1 == [d EXCEPT !["match_score"] = IntV(MatchScore(d))]
    IN  Return(ListsAlwaysLists(d1, JdListKeys))

(***************************************************************************)
(* src/analyze.py: _call_openai under tenacity's retry.  Every exception   *)
(* of an attempt (the connection, the service, json.loads) is retried      *)
(* alike; when the stop condition holds after a failed attempt, tenacity   *)
(* raises RetryError.                                                      *)
(***************************************************************************)
STOP_AFTER_ATTEMPT == 3
WAIT_MULTIPLIER == 1
WAIT_MIN == 1
WAIT_MAX == 8

RemoteFailures == {"APIConnectionError", "APIStatusError", "JSONDecodeError"}

\* A slip: one attempt more than asked for.
StopOneLate(n) == n > STOP_AFTER_ATTEMPT

\* stop_after_attempt(3), asked after attempt n failed
ShouldStop(n) == n >= STOP_AFTER_ATTEMPT

\* wait_exponential(multiplier=1, min=1, max=8), slept after attempt n failed
wait_exponential(n) == Max(Max(0, WAIT_MIN), Min(WAIT_MULTIPLIER * 2 ^ (n - 1), WAIT_MAX))

Call(fn, n, outcome) == [fn |-> fn, n |-> n, outcome |-> outcome]

\* One attempt of analyze_resume's remote call raises.
AnalyzeResumeCallFails ==
    /\ pc = "analyze_resume"
    /\ \E e \in RemoteFailures : calls' = Append(calls, Call("general", attempt + 1, e))
    /\ messages' = build_message_general(resume_text, role)
    /\ IF ShouldStop(attempt + 1)
       THEN /\ review' = Raise("RetryError")
            /\ pc' = "raised"
            /\ attempt' = 0
            /\ waits' = waits
       ELSE /\ review' = review
            /\ pc' = pc
            /\ attempt' = attempt + 1
            /\ waits' = Append(waits, wait_exponential(attempt + 1))
    /\ UNCHANGED <<text, once, twice, uploaded_file, jd_file, api_key, extracted, role,
                   resume_text, jd_text, raw, ats, ui>>

\* One attempt of analyze_resume's remote call answers; the answer is normalised.
AnalyzeResumeReturns(Responses) ==
    /\ pc = "analyze_resume"
    /\ calls' = Append(calls, Call("general", attempt + 1, "ok"))
    /\ messages' = build_message_general(resume_text, role)
    /\ \E d \in Responses :
          /\ raw' = Dict(d)
          /\ review' = NormalizeReview(d)
          /\ pc' = IF NormalizeReview(d).ok THEN "show_review" ELSE "raised"
    /\ attempt' = 0
    /\ UNCHANGED <<text, once, twice, uploaded_file, jd_file, api_key, extracted, role,
                   resume_text, jd_text, waits, ats, ui>>

\* One attempt of analyze_with_jd's remote call raises.
AnalyzeWithJdCallFails ==
    /\ pc = "analyze_with_jd"
    /\ \E e \in RemoteFailures : calls' = Append(calls, Call("jd", attempt + 1, e))
    /\ messages' = build_message_with_jd(resume_text, jd_text.v, role)
    /\ IF ShouldStop(attempt + 1)
       THEN /\ ats' = Raise("RetryError")
            /\ pc' = "raised"
            /\ attempt' = 0
            /\ waits' = waits
       ELSE /\ ats' = ats
            /\ pc' = pc
            /\ attempt' = attempt + 1
            /\ waits' = Append(waits, wait_exponential(attempt + 1))
    /\ UNCHANGED <<text, once, twice, uploaded_file, jd_file, api_key, extracted, role,
                   resume_text, jd_text, raw, review, ui>>

\* One attempt of analyze_with_jd's remote call answers; the answer is normalised.
AnalyzeWithJdReturns(Responses) ==
    /\ pc = "analyze_with_jd"
    /\ calls' = Append(calls, Call("jd", attempt + 1, "ok"))
    /\ messages' = build_message_with_jd(resume_text, jd_text.v, role)
    /\ \E d \in Responses :
          /\ raw' = Dict(d)
          /\ ats' = NormalizeAts(d)
    /\ pc' = "show_ats"
    /\ attempt' = 0
    /\ UNCHANGED <<text, once, twice, uploaded_file, jd_file, api_key, extracted, role,
                   resume_text, jd_text, waits, review, ui>>

(***************************************************************************)
(* The client on its own: one analyze_resume or one analyze_with_jd, with  *)
(* the remote model free to fail or to answer anything of these shapes.    *)
(***************************************************************************)
ScoreRaw ==
    { Absent, None, BoolV(TRUE),
      IntV(-5), IntV(0), IntV(85), IntV(100), IntV(150),
      FloatV(FALSE, 99, 9), FloatV(TRUE, 0, 5), Infinity, NaN,
      StrV(<<"8", "5">>), StrV(<<"N", "/", "A">>), StrV(<<"sup2">>), StrV(<<>>),
      StrV(<<"-", "5">>), StrV(<<"sp", "4", "2">>), StrV(<<"1", "_", "0">>),
      ListV(<<>>) }

ListRaw == {Absent, StrV(<<"a">>), ListV(<<>>), ListV(<<StrV(<<"a">>), IntV(7)>>)}

SummaryRaw ==
    {Absent, StrV(<<"sp", "a">>), IntV(7), ListV(<<StrV(<<"a", "sp">>), StrV(<<"sp">>), IntV(7)>>)}

GeneralResponses ==
    {[k \in GeneralKeys |->
        IF k = "overall_score" THEN sc ELSE IF k = "summary" THEN su ELSE ls[k]]
     : sc \in ScoreRaw, su \in SummaryRaw, ls \in [GeneralListKeys -> ListRaw]}

JdResponses ==
    {[k \in JdKeys |-> IF k = "match_score" THEN sc ELSE ls[k]]
     : sc \in ScoreRaw, ls \in [JdListKeys -> ListRaw]}

InitClient ==
    /\ pc \in {"analyze_resume", "analyze_with_jd"}
    /\ role = StrV(<<"a">>)
    /\ resume_text = <<"a", "nl", "b">>
    /\ jd_text = StrV(<<"b">>)
    /\ uploaded_file = None /\ jd_file = None /\ api_key = TRUE /\ ui = <<>>
    /\ IdleNorm /\ IdleExtract /\ IdleClient

NextClient ==
    \/ AnalyzeResumeCallFails
    \/ AnalyzeResumeReturns(GeneralResponses)
    \/ AnalyzeWithJdCallFails
    \/ AnalyzeWithJdReturns(JdResponses)

SpecClient == InitClient /\ [][NextClient]_vars

LastCall == calls[Len(calls)]

Answered(fn) == calls # <<>> /\ LastCall.fn = fn /\ LastCall.outcome = "ok"

AllFailed == \A i \in 1..Len(calls) : calls[i].outcome # "ok"

Outcome == IF calls # <<>> /\ calls[1].fn = "jd" THEN ats ELSE review

\* C1: one execute makes at most three remote calls; a call is made only
\* after failures; an answer on the third attempt (or an earlier one) is
\* what _call_openai returns, with no RetryError; three failures end in
\* RetryError with no fourth call and no answer put in its place.
C1_ThreeAttemptsThenError ==
    /\ Len(calls) <= 3
    /\ \A i \in 1..Len(calls) : calls[i].n = i /\ (i < Len(calls) => calls[i].outcome # "ok")
    /\ (calls # <<>> /\ LastCall.outcome = "ok") =>
          /\ raw.t = "dict"
          /\ Outcome.exc # "RetryError"
          /\ pc # "analyze_resume" /\ pc # "analyze_with_jd"
    /\ (Len(calls) = 3 /\ AllFailed) =>
          /\ pc = "raised"
          /\ ~Outcome.ok /\ Outcome.exc = "RetryError"
          /\ raw.t = "None"
    /\ (Len(calls) < 3 /\ AllFailed) =>
          /\ pc \in {"analyze_resume", "analyze_with_jd"}
          /\ Outcome.exc = "unset"
    /\ waits = [i \in 1..Len(waits) |-> 2 ^ (i - 1)]

\* Two failures, then an answer on the third attempt, returned normalised.
C1_Witness ==
    /\ Len(calls) = 3
    /\ calls[1].outcome = "APIConnectionError"
    /\ calls[2].outcome = "JSONDecodeError"
    /\ calls[3].outcome = "ok"
    /\ waits = <<1, 2>>
    /\ pc = "show_review" /\ review.ok
    /\ raw.v["overall_score"] = IntV(85)
    /\ review.data["overall_score"] = IntV(85)

\* A non-negative integer literal: an int >= 0, or a string of decimal digits.
NonNegIntLiteral(x) ==
    \/ x.t = "int" /\ x.v >= 0
    \/ x.t = "str" /\ x.v # <<>> /\ \A i \in 1..Len(x.v) : IsDecimal(x.v[i])

\* C7: whatever object the remote call answers, analyze_resume raises no
\* error, overall_score is an integer, and it is 0 when the raw value is
\* absent or is no non-negative integer literal.
C7_OverallScoreAlwaysInt ==
    Answered("general") =>
        /\ review.ok
        /\ review.data["overall_score"].t = "int"
        /\ ~NonNegIntLiteral(raw.v["overall_score"]) => review.data["overall_score"].v = 0

\* What holds of the code: the score is an integer, 0 for the raw values
\* that are no integer literal, whenever the raw value is not a string
\* str.isdigit() accepts and int() refuses.
C7_OverallScoreUnlessOddDigits ==
    Answered("general") =>
        LET r == raw.v["overall_score"]
            odd == r.t = "str" /\ IsDigit(r.v) /\ ~NonNegIntLiteral(r)
        IN  /\ review.ok <=> ~odd
            /\ review.ok =>
                  /\ review.data["overall_score"].t = "int"
                  /\ ~NonNegIntLiteral(r) => review.data["overall_score"].v = 0
                  /\ r.t = "int" /\ r.v >= 0 => review.data["overall_score"].v = r.v

Clamp(n) == IF n > 100 THEN 100 ELSE IF n < 0 THEN 0 ELSE n

\* C8: whatever object the remote call answers, analyze_with_jd raises no
\* error and match_score is an integer in 0..100: a number is cut to that
\* range (150 gives 100, -5 gives 0), and a value that is absent or that
\* int() refuses gives 0.
C8_MatchScoreClamped ==
    Answered("jd") =>
        LET r == raw.v["match_score"]
            m == ats.data["match_score"]
        IN  /\ ats.ok /\ pc = "show_ats"
            /\ m.t = "int" /\ m.v \in 0..100
            /\ r.t = "int" => m.v = Clamp(r.v)
            /\ r = IntV(150) => m.v = 100
            /\ r.t \in {"absent", "None", "list"} => m.v = 0
            /\ (r.t = "float" /\ r.v.kind # "finite") => m.v = 0
            /\ (r.t = "float" /\ r.v.kind = "finite") =>
                  m.v = Clamp(IF r.v.neg THEN -r.v.whole ELSE r.v.whole)
            /\ (r.t = "str" /\ (r.v = <<>> \/ \E i \in 1..Len(r.v) :
                                   r.v[i] \notin {"sp", "+", "-", "_"} /\ ~IsDecimal(r.v[i]))) =>
                  m.v = 0
            /\ r = StrV(<<"8", "5">>) => m.v = 85

C8_Witness ==
    /\ pc = "show_ats"
    /\ raw.v["match_score"] = IntV(150)
    /\ ats.ok /\ ats.data["match_score"] = IntV(100)

ListFieldsRepaired(before, after, keys) ==
    \A k \in keys :
        /\ after[k].t = "list"
        /\ before[k].t = "list" => after[k] = before[k]
        /\ before[k].t # "list" => after[k] = ListV(<<>>)

\* C9: in both results every list field is a list: the raw list when the
\* answer holds one, [] when the key is missing or holds anything else; no
\* missing or wrongly typed list field makes the analysis raise (the only
\* error after an answer comes from a string overall_score).
C9_ListFieldsAlwaysLists ==
    /\ Answered("jd") =>
          /\ ats.ok
          /\ ListFieldsRepaired(raw.v, ats.data, JdListKeys)
    /\ Answered("general") =>
          /\ review.ok => ListFieldsRepaired(raw.v, review.data, GeneralListKeys)
          /\ ~review.ok => raw.v["overall_score"].t = "str" /\ review.exc = "ValueError"
          /\ raw.v["overall_score"].t # "str" => review.ok

\* An answer without strengths, with a string for issues and a list for
\* action_items.
C9_Witness ==
    /\ pc = "show_review" /\ review.ok
    /\ raw.v["strengths"] = Absent /\ review.data["strengths"] = ListV(<<>>)
    /\ raw.v["issues"] = StrV(<<"a">>) /\ review.data["issues"] = ListV(<<>>)
    /\ raw.v["action_items"] = ListV(<<StrV(<<"a">>), IntV(7)>>)
    /\ review.data["action_items"] = raw.v["action_items"]

(***************************************************************************)
(* src/main.py: the flow behind the Analyze button.  The script runs from  *)
(* top to bottom; st.stop() ends the run, an exception nobody catches ends *)
(* it too.  The steps between two remote calls are one action each.        *)
(***************************************************************************)
\* parse_once caches extract_text_from_file by the file's content; the
\* extraction is a function of the file, so the cached text is the text a
\* fresh extraction gives.
parse_once(f) == extract_text_from_file(f)

Show(items) == ui \o items

\* Lines 116-125: the text of the job description, None when there is none.
ParsedJd(f) ==
    IF f.t = "None" THEN None
    ELSE LET got == parse_once(f)
             parsed == IF got.ok THEN StrV(got.text) ELSE None
         IN  IF Truthy(parsed) /\ Strip(parsed.v) = <<>> THEN None ELSE parsed

JdWarnings(f) ==
    IF f.t = "None" THEN <<>>
    ELSE LET got == parse_once(f)
         IN  IF ~got.ok THEN <<"warning: Failed to parse Job Description">>
             ELSE IF got.text # <<>> /\ Strip(got.text) = <<>>
                  THEN <<"warning: The uploaded Job Description is empty.">>
                  ELSE <<>>

\* Lines 96-133: the validations, both parses and the previews.
Prepare ==
    /\ pc = "analyze_clicked"
    /\ IF ~api_key
       THEN /\ ui' = Show(<<"error: Missing OPENAI_API_KEY">>)
            /\ pc' = "stopped"
            /\ UNCHANGED <<resume_text, jd_text>>
       ELSE IF uploaded_file.t = "None"
       THEN /\ ui' = Show(<<"error: Please upload a resume file first.">>)
            /\ pc' = "stopped"
            /\ UNCHANGED <<resume_text, jd_text>>
       ELSE LET got == parse_once(uploaded_file)
            IN  IF ~got.ok
                THEN /\ ui' = Show(<<"error: Failed to parse resume">>)
                     /\ pc' = "stopped"
                     /\ UNCHANGED <<resume_text, jd_text>>
                ELSE IF Strip(got.text) = <<>>
                THEN /\ ui' = Show(<<"error: The resume file appears to be empty.">>)
                     /\ pc' = "stopped"
                     /\ UNCHANGED <<resume_text, jd_text>>
                ELSE /\ resume_text' = got.text
                     /\ jd_text' = ParsedJd(jd_file)
                     /\ ui' = Show(JdWarnings(jd_file)
                                   \o <<"expander: parsed resume text">>
                                   \o IF Truthy(ParsedJd(jd_file))
                                      THEN <<"expander: parsed JD text">> ELSE <<>>)
                     /\ pc' = "analyze_resume"
    /\ UNCHANGED <<text, once, twice, uploaded_file, jd_file, api_key, extracted, role,
                   messages, attempt, waits, raw, review, ats, calls>>

\* A slip: the JD analysis runs whenever a JD file was uploaded.
RunAtsWhenUploaded == jd_file.t # "None"

\* Line 153: if jd_text
RunAts == Truthy(jd_text)

\* Lines 139-153, and 164-174 when no JD analysis follows.
AfterReview ==
    /\ pc = "show_review"
    /\ ats' = Unset
    /\ IF RunAts
       THEN /\ ui' = Show(<<"header: Resume Review">>)
            /\ pc' = "analyze_with_jd"
       ELSE /\ ui' = Show(<<"header: Resume Review", "download: review report">>)
            /\ pc' = "done"
    /\ UNCHANGED <<text, once, twice, uploaded_file, jd_file, api_key, extracted, role,
                   resume_text, jd_text, messages, attempt, waits, raw, review, calls>>

\* Lines 157-174.
AfterAts ==
    /\ pc = "show_ats"
    /\ ui' = Show(<<"header: ATS Match", "download: review and ATS report">>)
    /\ pc' = "done"
    /\ UNCHANGED <<text, once, twice, uploaded_file, jd_file, api_key, extracted, role,
                   resume_text, jd_text, messages, attempt, waits, raw, review, ats, calls>>

(***************************************************************************)
(* The flow, on small uploads and a few answers of the remote model.       *)
(***************************************************************************)
FlowUploads(sizes) == Uploads(sizes, {<<>>, <<"sp">>, <<"a">>, <<"b">>}, 1)

FlowSizes == {0, 1, MAX_BYTES + 1}

FlowRoles == {StrV(<<>>), StrV(<<"a">>)}

GoodReview ==
    [k \in GeneralKeys |->
        IF k = "overall_score" THEN IntV(85)
        ELSE IF k = "summary" THEN StrV(<<"a">>) ELSE ListV(<<StrV(<<"a">>)>>)]

GoodAts ==
    [k \in JdKeys |-> IF k = "match_score" THEN IntV(150) ELSE ListV(<<StrV(<<"b">>)>>)]

FlowGeneralResponses ==
    { GoodReview,
      [k \in GeneralKeys |-> Absent],
      [GoodReview EXCEPT !["overall_score"] = StrV(<<"sup2">>)] }

FlowJdResponses == {GoodAts, [k \in JdKeys |-> Absent]}

InitFlow ==
    /\ pc = "analyze_clicked"
    /\ api_key \in BOOLEAN
    /\ uploaded_file \in {None} \cup FlowUploads(FlowSizes)
    /\ jd_file \in {None} \cup FlowUploads(FlowSizes)
    /\ role \in FlowRoles
    /\ resume_text = <<>> /\ jd_text = None /\ ui = <<>>
    /\ IdleNorm /\ IdleExtract /\ IdleClient

NextFlow ==
    \/ Prepare
    \/ AnalyzeResumeCallFails
    \/ AnalyzeResumeReturns(FlowGeneralResponses)
    \/ AfterReview
    \/ AnalyzeWithJdCallFails
    \/ AnalyzeWithJdReturns(FlowJdResponses)
    \/ AfterAts

SpecFlow == InitFlow /\ [][NextFlow]_vars

Called(fn) == \E i \in 1..Len(calls) : calls[i].fn = fn

ResumeUsable ==
    /\ api_key /\ uploaded_file.t # "None"
    /\ extract_text_from_file(uploaded_file).ok
    /\ extract_text_from_file(uploaded_file).text # <<>>

JdUsable ==
    /\ jd_file.t # "None"
    /\ extract_text_from_file(jd_file).ok
    /\ extract_text_from_file(jd_file).text # <<>>

\* C4: with a resume that parses to text, a job description that fails to
\* parse or parses to nothing does not stop the flow: it counts as not
\* given, the general review is called, the JD match is not; the JD match
\* is called only with a job description that parsed to text.
C4_BadJdDegrades ==
    /\ Called("jd") => (JdUsable /\ jd_text = StrV(extract_text_from_file(jd_file).text))
    /\ (ResumeUsable /\ pc # "analyze_clicked") =>
          /\ pc # "stopped"
          /\ pc # "analyze_resume" => Called("general")
          /\ ~JdUsable =>
                /\ ~Truthy(jd_text)
                /\ ~Called("jd")
                /\ pc \notin {"analyze_with_jd", "show_ats"}
                /\ pc = "done" => (review.ok /\ ~ats.ok)

\* A resume that parsed, a JD upload that did not, and the review shown.
C4_Witness ==
    /\ pc = "done"
    /\ ResumeUsable
    /\ jd_file.t # "None" /\ ~extract_text_from_file(jd_file).ok
    /\ Called("general") /\ ~Called("jd")
    /\ review.ok
    /\ ui = <<"warning: Failed to parse Job Description", "expander: parsed resume text",
              "header: Resume Review", "download: review report">>

====
